---- MODULE Spec2Model ----
(***************************************************************************)
(* A model of ldap/apr_ldap_init.c: apr_ldap_ssl_init, apr_ldap_ssl_deinit,*)
(* apr_ldap_init and apr_ldap_info, together with a test double of the     *)
(* vendor LDAP toolkit they call.                                          *)
(*                                                                         *)
(* The toolkit variant and the capability macros are fixed when the        *)
(* library is built.  They are the record `build`, chosen in Init and      *)
(* never changed.  The preprocessor blocks of the source become operators  *)
(* guarded by the macro they test, applied in the order of the source.     *)
(***************************************************************************)
EXTENDS Integers, Sequences, FiniteSets, TLC

VARIABLES
    build,          \* the macros of this build (toolkit variant, capabilities)
    ssl_client,     \* toolkit: the SSL client library is initialised
    trusted,        \* toolkit: the CA certificate files it trusts, in order
    open,           \* toolkit: connections opened and not closed
    nconn,          \* toolkit: number of connections opened so far
    returned,       \* handles handed to a caller by a call that returned APR_SUCCESS
    last,           \* the last call: its arguments, status, result record, native calls
    twin            \* the last apr_ldap_init call replayed on the build that differs
                    \* from `build` in APR_HAS_LDAP_SSL only

vars == <<build, ssl_client, trusted, open, nconn, returned, last, twin>>

----------------------------------------------------------------------------
(* Bounds of the model. *)

\* at most this many certificates are held by the toolkit
MaxCerts == 2
\* at most this many connections are opened by the toolkit
MaxConns == 2

----------------------------------------------------------------------------
(* Values. *)

\* a NULL char pointer (cert_auth_file, result->msg, result->reason)
NullStr == "NULL"
\* a NULL LDAP pointer
NullLdap == 0
\* a non-NULL value left in the caller's LDAP* variable that no open produced
StaleLdap == MaxConns + 1

CertFiles == {"/a.pem", "/b.pem"}
CertTypes == {"DER", "BASE64", "CERT7_DB"}

LDAP_SUCCESS == 0
\* failure codes a toolkit function may return; the toolkits document -1 for
\* ldapssl_client_init and ldap_set_option, and positive LDAP result codes
NativeFailure == {-1, 80}
NativeRc == {LDAP_SUCCESS} \cup NativeFailure

APR_SUCCESS == 0
APR_EGENERAL == 20014
APR_ENOTIMPL == 70023
\* values errno can hold when apr_ldap_init is entered
OsErrors == {0, 111}
\* values a toolkit open function leaves in errno when it returns NULL (the
\* comment at line 332: the error is reported by the OS)
OpenErrors == {12, 111}

Sdks == {"NETSCAPE", "NOVELL", "OPENLDAP", "MICROSOFT", "SOLARIS", "OTHER"}

\* the builds: one toolkit variant, APR_HAS_LDAP_SSL, and the capability
\* macros that the variant's toolkit can provide
Builds ==
    { b \in [ sdk : Sdks, ssl : BOOLEAN,
              client_init : BOOLEAN, add_trusted_cert : BOOLEAN,
              client_deinit : BOOLEAN, ldapssl_init : BOOLEAN,
              x_tls_cacertfile : BOOLEAN, x_tls : BOOLEAN,
              sslinit : BOOLEAN ] :
        /\ (b.client_init \/ b.add_trusted_cert) => b.sdk = "NOVELL"
        /\ (b.client_deinit \/ b.ldapssl_init) => b.sdk \in {"NOVELL", "NETSCAPE"}
        /\ (b.x_tls_cacertfile \/ b.x_tls) => b.sdk = "OPENLDAP"
        /\ b.sslinit => b.sdk = "MICROSOFT" }

----------------------------------------------------------------------------
(* The macros tested by the source. *)

APR_HAS_LDAP_SSL(b) == b.ssl
APR_HAS_NETSCAPE_LDAPSDK(b) == b.sdk = "NETSCAPE"
APR_HAS_NOVELL_LDAPSDK(b) == b.sdk = "NOVELL"
APR_HAS_OPENLDAP_LDAPSDK(b) == b.sdk = "OPENLDAP"
APR_HAS_MICROSOFT_LDAPSDK(b) == b.sdk = "MICROSOFT"
APR_HAS_SOLARIS_LDAPSDK(b) == b.sdk = "SOLARIS"
APR_HAS_OTHER_LDAPSDK(b) == b.sdk = "OTHER"
APR_HAS_LDAPSSL_CLIENT_INIT(b) == b.client_init
APR_HAS_LDAPSSL_ADD_TRUSTED_CERT(b) == b.add_trusted_cert
APR_HAS_LDAPSSL_CLIENT_DEINIT(b) == b.client_deinit
APR_HAS_LDAPSSL_INIT(b) == b.ldapssl_init
LDAP_OPT_X_TLS_CACERTFILE(b) == b.x_tls_cacertfile
LDAP_OPT_X_TLS(b) == b.x_tls
APR_HAS_LDAP_SSLINIT(b) == b.sslinit

\* Line 72 tests APR_HAS_NETSCAPE_LDAPSK and line 74 APR_HAS_LDAP_SSL_CLIENT_INIT.
\* The names used everywhere else are APR_HAS_NETSCAPE_LDAPSDK (line 273) and
\* APR_HAS_LDAPSSL_CLIENT_INIT (line 96); no build defines the two names
\* tested here, and #if takes an undefined name as 0.
APR_HAS_NETSCAPE_LDAPSK(b) == FALSE
APR_HAS_LDAP_SSL_CLIENT_INIT(b) == FALSE

----------------------------------------------------------------------------
(* The toolkit. *)

\* ldap_err2string: the toolkit's text for a status code
ldap_err2string(rc) ==
    CASE rc = 0 -> "Success"
      [] rc = -1 -> "Can't contact LDAP server"
      [] rc = 80 -> "Other (e.g., implementation specific) error"
      [] OTHER -> "Unknown error"

\* one native call in the log of an operation
Call(fn, arg, ret) == [fn |-> fn, arg |-> arg, ret |-> ret]

\* the native functions whose return value is a toolkit status code
RcFns == {"ldapssl_client_init", "ldapssl_add_trusted_cert", "ldap_set_option"}
\* the native functions that open a connection
OpenFns == {"ldap_init", "ldapssl_init", "ldap_sslinit"}

\* ldapssl_client_init(NULL, NULL) of the Novell toolkit returning rc: on
\* success the SSL client library is initialised; certificates already added
\* stay
NovellClientInit(m, rc) ==
    [m EXCEPT !.rc = rc,
              !.calls = Append(@, Call("ldapssl_client_init", NullStr, rc)),
              !.client = IF rc = LDAP_SUCCESS THEN TRUE ELSE @]

\* ldapssl_client_init(certdb, NULL) of the Netscape toolkit returning rc: on
\* success the client is initialised with that certificate database
NetscapeClientInit(m, certdb, rc) ==
    [m EXCEPT !.rc = rc,
              !.calls = Append(@, Call("ldapssl_client_init", certdb, rc)),
              !.client = IF rc = LDAP_SUCCESS THEN TRUE ELSE @,
              !.trusted = IF rc = LDAP_SUCCESS THEN <<certdb>> ELSE @]

\* ldapssl_add_trusted_cert(file, filetype) returning rc: on success the
\* certificate joins those already trusted
AddTrustedCert(m, file, filetype, rc) ==
    [m EXCEPT !.rc = rc,
              !.calls = Append(@, Call("ldapssl_add_trusted_cert", filetype, rc)),
              !.trusted = IF rc = LDAP_SUCCESS THEN Append(@, file) ELSE @]

\* ldapssl_client_deinit(): the SSL client library and its certificates are
\* torn down; the return value is not looked at
ClientDeinit(m) ==
    [m EXCEPT !.calls = Append(@, Call("ldapssl_client_deinit", NullStr, 0)),
              !.client = FALSE,
              !.trusted = <<>>]

\* ldap_set_option(NULL, LDAP_OPT_X_TLS_CACERTFILE, file) returning rc: on
\* success the global option holds that file, whatever it held before
SetOptionCaCertFile(m, file, rc) ==
    [m EXCEPT !.rc = rc,
              !.calls = Append(@, Call("ldap_set_option", "LDAP_OPT_X_TLS_CACERTFILE", rc)),
              !.trusted = IF rc = LDAP_SUCCESS THEN <<file>> ELSE @]

----------------------------------------------------------------------------
(* apr_ldap_ssl_init.  m is the function's state part way through: the    *)
(* result record (rc, msg, reason), the toolkit's state and the native     *)
(* calls made so far.  nat holds what the native calls will return.        *)

\* the result record after apr_pcalloc, before any block
SslInitEntry(client, certs) ==
    [rc |-> 0, msg |-> NullStr, reason |-> NullStr,
     client |-> client, trusted |-> certs, calls |-> <<>>]

\* Fail with the assignment of the -1 sentinel forgotten
FailKeepsRc(m, reason) == [m EXCEPT !.reason = reason]

Fail(m, reason) == [m EXCEPT !.reason = reason, !.rc = -1]

NetscapeSslBlock(b, m, file, type, nat) ==
    IF ~APR_HAS_NETSCAPE_LDAPSK(b) \/ file = NullStr THEN m
    ELSE IF ~APR_HAS_LDAP_SSL_CLIENT_INIT(b)
         THEN Fail(m, "LDAP: ldapssl_client_init() function not supported by this Netscape SDK. Certificate authority file not set")
    ELSE IF type = "CERT7_DB" THEN NetscapeClientInit(m, file, nat.init_rc)
    ELSE Fail(m, "LDAP: Invalid certificate type: CERT7_DB type required")

\* NovellAddFailed with the call of ldapssl_client_deinit() forgotten
NovellAddFailedNoDeinit(m, file) ==
    [m EXCEPT
        !.reason = "LDAP: Invalid certificate or path: Could not add trusted cert " \o file]

\* lines 121-128: the certificate could not be added
NovellAddFailed(m, file) ==
    [ClientDeinit(m) EXCEPT
        !.reason = "LDAP: Invalid certificate or path: Could not add trusted cert " \o file]

\* NovellInitFailed tearing the client down as the add failure does
NovellInitFailedDeinit(m) ==
    [ClientDeinit(m) EXCEPT !.msg = ldap_err2string(m.rc),
                            !.reason = "LDAP: Could not initialize SSL"]

\* lines 99-103: ldapssl_client_init failed
NovellInitFailed(m) ==
    [m EXCEPT !.msg = ldap_err2string(m.rc),
              !.reason = "LDAP: Could not initialize SSL"]

\* NovellSetCert taking a missing file for a rejected one
NovellSetCertNullRejected(m, file, type, nat) ==
    IF file # NullStr /\ (type = "DER" \/ type = "BASE64")
    THEN LET m2 == IF type = "BASE64"
                   THEN AddTrustedCert(m, file, "LDAPSSL_CERT_FILETYPE_B64", nat.add_rc)
                   ELSE AddTrustedCert(m, file, "LDAPSSL_CERT_FILETYPE_DER", nat.add_rc)
         IN  IF LDAP_SUCCESS # m2.rc THEN NovellAddFailed(m2, file) ELSE m2
    ELSE Fail(m, "LDAP: Invalid certificate type: DER or BASE64 type required")

\* lines 105-135: set one or more certificates, the client being initialised
NovellSetCert(m, file, type, nat) ==
    IF file = NullStr THEN m
    ELSE IF type = "DER" \/ type = "BASE64"
         THEN LET m2 == IF type = "BASE64"
                        THEN AddTrustedCert(m, file, "LDAPSSL_CERT_FILETYPE_B64", nat.add_rc)
                        ELSE AddTrustedCert(m, file, "LDAPSSL_CERT_FILETYPE_DER", nat.add_rc)
              IN  IF LDAP_SUCCESS # m2.rc THEN NovellAddFailed(m2, file) ELSE m2
         ELSE Fail(m, "LDAP: Invalid certificate type: DER or BASE64 type required")

\* NovellSslBlock initialising the client only on the call without a file
NovellSslBlockNoImplicitInit(b, m, file, type, nat) ==
    IF ~APR_HAS_NOVELL_LDAPSDK(b) THEN m
    ELSE IF ~(/\ APR_HAS_LDAPSSL_CLIENT_INIT(b)
              /\ APR_HAS_LDAPSSL_ADD_TRUSTED_CERT(b)
              /\ APR_HAS_LDAPSSL_CLIENT_DEINIT(b))
         THEN Fail(m, "LDAP: ldapssl_client_init(), ldapssl_add_trusted_cert() or ldapssl_client_deinit() functions not supported by this Novell SDK. Certificate authority file not set")
    ELSE IF file # NullStr THEN NovellSetCert(m, file, type, nat)
    ELSE LET m1 == NovellClientInit(m, nat.init_rc) IN
         IF LDAP_SUCCESS # m1.rc THEN NovellInitFailed(m1) ELSE m1

NovellSslBlock(b, m, file, type, nat) ==
    IF ~APR_HAS_NOVELL_LDAPSDK(b) THEN m
    ELSE IF ~(/\ APR_HAS_LDAPSSL_CLIENT_INIT(b)
              /\ APR_HAS_LDAPSSL_ADD_TRUSTED_CERT(b)
              /\ APR_HAS_LDAPSSL_CLIENT_DEINIT(b))
         THEN Fail(m, "LDAP: ldapssl_client_init(), ldapssl_add_trusted_cert() or ldapssl_client_deinit() functions not supported by this Novell SDK. Certificate authority file not set")
    ELSE LET m1 == NovellClientInit(m, nat.init_rc) IN
         IF LDAP_SUCCESS # m1.rc
         THEN NovellInitFailed(m1)
         ELSE NovellSetCert(m1, file, type, nat)

OpenLdapSslBlock(b, m, file, type, nat) ==
    IF ~APR_HAS_OPENLDAP_LDAPSDK(b) \/ file = NullStr THEN m
    ELSE IF ~LDAP_OPT_X_TLS_CACERTFILE(b)
         THEN Fail(m, "LDAP: LDAP_OPT_X_TLS_CACERTFILE not defined by this OpenLDAP SDK. Certificate authority file not set")
    ELSE IF type = "BASE64" THEN SetOptionCaCertFile(m, file, nat.opt_rc)
    ELSE Fail(m, "LDAP: Invalid certificate type: BASE64 type required")

\* MicrosoftSslBlock treating the toolkit as the Sun toolkit is treated
MicrosoftSslBlockUnsupported(b, m) ==
    IF APR_HAS_MICROSOFT_LDAPSDK(b)
    THEN Fail(m, "LDAP: Attempt to set certificate store failed")
    ELSE m

\* lines 171-177

MicrosoftSslBlock(b, m) ==
    IF APR_HAS_MICROSOFT_LDAPSDK(b) THEN [m EXCEPT !.rc = LDAP_SUCCESS] ELSE m

SolarisSslBlock(b, m, file) ==
    IF APR_HAS_SOLARIS_LDAPSDK(b) /\ file # NullStr
    THEN Fail(m, "LDAP: Attempt to set certificate store failed. APR does not yet know how to set a certificate store on the Sun toolkit")
    ELSE m

OtherSslBlock(b, m, file) ==
    IF APR_HAS_OTHER_LDAPSDK(b) /\ file # NullStr
    THEN Fail(m, "LDAP: Attempt to set certificate store failed. Toolkit type not recognised by APR as supporting SSL")
    ELSE m

\* NoSslBlock reporting nothing
NoSslBlockSilent(m, file) == m

\* lines 200-206
NoSslBlock(m, file) ==
    IF file # NullStr
    THEN Fail(m, "LDAP: Attempt to set certificate store failed. Not built with SSL support")
    ELSE m

\* SslInitMsg without the test for the -1 sentinel
SslInitMsgAlways(m) == [m EXCEPT !.msg = ldap_err2string(m.rc)]

\* lines 208-210
SslInitMsg(m) ==
    IF m.rc # -1 THEN [m EXCEPT !.msg = ldap_err2string(m.rc)] ELSE m

\* lines 212-216
SslInitStatus(m) ==
    IF LDAP_SUCCESS # m.rc THEN APR_EGENERAL ELSE APR_SUCCESS

\* the whole function: the state at its end and its return value
apr_ldap_ssl_init(b, client, certs, file, type, nat) ==
    LET m0 == SslInitEntry(client, certs)
        m1 == IF APR_HAS_LDAP_SSL(b)
              THEN OtherSslBlock(b,
                     SolarisSslBlock(b,
                       MicrosoftSslBlock(b,
                         OpenLdapSslBlock(b,
                           NovellSslBlock(b,
                             NetscapeSslBlock(b, m0, file, type, nat),
                             file, type, nat),
                           file, type, nat)),
                       file),
                     file)
              ELSE NoSslBlock(m0, file)
        m2 == SslInitMsg(m1)
    IN  [m |-> m2, rv |-> SslInitStatus(m2)]

----------------------------------------------------------------------------
(* apr_ldap_ssl_deinit. *)

\* apr_ldap_ssl_deinit with the call of ldapssl_client_deinit() compiled out
apr_ldap_ssl_deinit_nothing(b, m) == m

\* the toolkit's state after the call; the function always returns APR_SUCCESS
apr_ldap_ssl_deinit(b, m) ==
    IF APR_HAS_LDAP_SSL(b) /\ APR_HAS_LDAPSSL_CLIENT_DEINIT(b)
    THEN ClientDeinit(m)
    ELSE m

----------------------------------------------------------------------------
(* apr_ldap_init.  c is the function's state part way through: *ldap, the  *)
(* result record, the toolkit's connections, the native calls made so far, *)
(* and whether the function has returned (done) and with what (rv).        *)
(* nat holds what the native calls will return: the handle an open gives   *)
(* (NullLdap when it fails, errno then being set to nat.open_errno) and    *)
(* the status of ldap_set_option; nat.errno is errno on entry.             *)

\* on entry *ldap holds whatever the caller left in it
InitEntry(in_ldap, conns, errno) ==
    [ldap |-> in_ldap, rc |-> 0, msg |-> NullStr, reason |-> NullStr,
     calls |-> <<>>, open |-> conns, errno |-> errno,
     done |-> FALSE, rv |-> APR_SUCCESS]

\* *ldap = fn(hostname, portno ...) for one of the toolkit's open functions
NativeOpen(c, fn, nat) ==
    [c EXCEPT !.ldap = nat.handle,
              !.calls = Append(@, Call(fn, "hostname", nat.handle)),
              !.open = IF nat.handle # NullLdap THEN @ \cup {nat.handle} ELSE @,
              !.errno = IF nat.handle = NullLdap THEN nat.open_errno ELSE @]

\* ldap_unbind_s(*ldap): the toolkit closes the connection
Unbind(c) ==
    [c EXCEPT !.calls = Append(@, Call("ldap_unbind_s", "ldap", 0)),
              !.open = @ \ {c.ldap}]

\* ldap_set_option(*ldap, LDAP_OPT_X_TLS, &SSLmode) returning rc
SetOptionTls(c, rc) ==
    [c EXCEPT !.rc = rc,
              !.calls = Append(@, Call("ldap_set_option", "LDAP_OPT_X_TLS", rc))]

Return(c, rv) == [c EXCEPT !.done = TRUE, !.rv = rv]

\* lines 272-281
NovellNetscapeInitBlock(b, c, nat) ==
    IF c.done \/ ~(APR_HAS_NOVELL_LDAPSDK(b) \/ APR_HAS_NETSCAPE_LDAPSDK(b)) THEN c
    ELSE IF APR_HAS_LDAPSSL_INIT(b) THEN NativeOpen(c, "ldapssl_init", nat)
    ELSE Return([c EXCEPT !.reason = "LDAP: SSL not yet supported by APR on this version of the Novell/Netscape toolkit"],
                APR_ENOTIMPL)

\* OpenLdapTlsFailed with the call of ldap_unbind_s() forgotten
OpenLdapTlsFailedNoUnbind(c) ==
    Return([c EXCEPT
                !.reason = "LDAP: ldap_set_option - LDAP_OPT_X_TLS_HARD failed",
                !.msg = ldap_err2string(c.rc),
                !.ldap = NullLdap],
           APR_EGENERAL)

\* lines 290-297: the mode option could not be set
OpenLdapTlsFailed(c) ==
    Return([Unbind(c) EXCEPT
                !.reason = "LDAP: ldap_set_option - LDAP_OPT_X_TLS_HARD failed",
                !.msg = ldap_err2string(c.rc),
                !.ldap = NullLdap],
           APR_EGENERAL)

\* lines 283-304
OpenLdapInitBlock(b, c, nat) ==
    IF c.done \/ ~APR_HAS_OPENLDAP_LDAPSDK(b) THEN c
    ELSE IF LDAP_OPT_X_TLS(b)
         THEN LET c1 == NativeOpen(c, "ldap_init", nat) IN
              IF NullLdap # c1.ldap
              THEN LET c2 == SetOptionTls(c1, nat.opt_rc) IN
                   IF LDAP_SUCCESS # c2.rc THEN OpenLdapTlsFailed(c2) ELSE c2
              ELSE c1
    ELSE Return([c EXCEPT !.reason = "LDAP: SSL not yet supported by APR on this version of the OpenLDAP toolkit"],
                APR_ENOTIMPL)

\* lines 306-315
MicrosoftInitBlock(b, c, nat) ==
    IF c.done \/ ~APR_HAS_MICROSOFT_LDAPSDK(b) THEN c
    ELSE IF APR_HAS_LDAP_SSLINIT(b) THEN NativeOpen(c, "ldap_sslinit", nat)
    ELSE Return([c EXCEPT !.reason = "LDAP: SSL not yet supported by APR on this version of the Microsoft toolkit"],
                APR_ENOTIMPL)

\* lines 317-322
SolarisInitBlock(b, c) ==
    IF c.done \/ ~APR_HAS_SOLARIS_LDAPSDK(b) THEN c
    ELSE Return([c EXCEPT !.reason = "LDAP: SSL not yet supported by APR on this version of the Sun toolkit"],
                APR_ENOTIMPL)

\* lines 324-327
OtherInitBlock(b, c) ==
    IF c.done \/ ~APR_HAS_OTHER_LDAPSDK(b) THEN c
    ELSE Return(c, APR_ENOTIMPL)

\* lines 269-330: an ssl connection is requested
SecureInit(b, c, nat) ==
    IF APR_HAS_LDAP_SSL(b)
    THEN OtherInitBlock(b,
           SolarisInitBlock(b,
             MicrosoftInitBlock(b,
               OpenLdapInitBlock(b,
                 NovellNetscapeInitBlock(b, c, nat),
                 nat),
               nat)))
    ELSE c

\* PlainInit opening the connection only when SSL support is compiled in
PlainInitNeedsSsl(b, c, nat) ==
    IF APR_HAS_LDAP_SSL(b) THEN NativeOpen(c, "ldap_init", nat) ELSE c

\* lines 265-268: a clear connection is requested
PlainInit(b, c, nat) == NativeOpen(c, "ldap_init", nat)

\* lines 332-340
InitStatus(c) ==
    IF c.done THEN c
    ELSE IF NullLdap = c.ldap THEN Return(c, c.errno)
    ELSE Return(c, APR_SUCCESS)

\* the whole function
apr_ldap_init(b, in_ldap, conns, secure, nat) ==
    LET c0 == InitEntry(in_ldap, conns, nat.errno)
        c1 == IF ~secure THEN PlainInit(b, c0, nat) ELSE SecureInit(b, c0, nat)
    IN  InitStatus(c1)

----------------------------------------------------------------------------
(* apr_ldap_info. *)

\* LDAP_VENDOR_NAME of the toolkit's header
LDAP_VENDOR_NAME(b) ==
    CASE b.sdk = "NETSCAPE" -> "Netscape"
      [] b.sdk = "NOVELL" -> "Novell"
      [] b.sdk = "OPENLDAP" -> "OpenLDAP"
      [] b.sdk = "MICROSOFT" -> "Microsoft"
      [] b.sdk = "SOLARIS" -> "Sun"
      [] OTHER -> "unknown"

\* apr_ldap_info leaving the reason unset
apr_ldap_info_unnamed(b) ==
    [rc |-> 0, msg |-> NullStr, reason |-> NullStr, rv |-> APR_SUCCESS]

apr_ldap_info(b) ==
    [rc |-> 0, msg |-> NullStr,
     reason |-> "APR LDAP: Built with " \o LDAP_VENDOR_NAME(b) \o " LDAP SDK",
     rv |-> APR_SUCCESS]

----------------------------------------------------------------------------
(* The state machine: a caller makes one call after another.              *)

\* what a native function of the build's toolkit may return; a function the
\* toolkit does not have is never called and returns nothing
Returns(b, sdks) == IF b.sdk \in sdks THEN NativeRc ELSE {LDAP_SUCCESS}

NoCall ==
    [op |-> "none", file |-> NullStr, type |-> "NONE", secure |-> FALSE,
     in_ldap |-> NullLdap, rv |-> APR_SUCCESS, rc |-> 0, msg |-> NullStr,
     reason |-> NullStr, ldap |-> NullLdap, calls |-> <<>>,
     pre_client |-> FALSE, pre_trusted |-> <<>>, pre_open |-> {}]

\* the build that differs from b in APR_HAS_LDAP_SSL only
Twin(b) == [b EXCEPT !.ssl = ~@]

\* what a caller sees of an apr_ldap_init call
InitOutcome(c) ==
    [rv |-> c.rv, ldap |-> c.ldap, rc |-> c.rc, msg |-> c.msg,
     reason |-> c.reason, calls |-> c.calls]

NoOutcome ==
    [rv |-> APR_SUCCESS, ldap |-> NullLdap, rc |-> 0, msg |-> NullStr,
     reason |-> NullStr, calls |-> <<>>]

Init ==
    /\ build \in Builds
    /\ ssl_client = FALSE
    /\ trusted = <<>>
    /\ open = {}
    /\ nconn = 0
    /\ returned = {}
    /\ last = NoCall
    /\ twin = NoOutcome

\* apr_ldap_ssl_init(pool, file, type, &result)
SslInit ==
    \E file \in CertFiles \cup {NullStr}, type \in CertTypes,
       nat \in [init_rc : Returns(build, {"NOVELL", "NETSCAPE"}),
                add_rc : Returns(build, {"NOVELL"}),
                opt_rc : Returns(build, {"OPENLDAP"})] :
        /\ file # NullStr => Len(trusted) < MaxCerts
        /\ \E r \in {apr_ldap_ssl_init(build, ssl_client, trusted, file, type, nat)} :
            /\ ssl_client' = r.m.client
            /\ trusted' = r.m.trusted
            /\ last' = [NoCall EXCEPT !.op = "ssl_init", !.file = file, !.type = type,
                                      !.rv = r.rv, !.rc = r.m.rc, !.msg = r.m.msg,
                                      !.reason = r.m.reason, !.calls = r.m.calls,
                                      !.pre_client = ssl_client,
                                      !.pre_trusted = trusted, !.pre_open = open]
        /\ UNCHANGED <<build, open, nconn, returned, twin>>

\* apr_ldap_ssl_deinit()
SslDeinit ==
    LET m == apr_ldap_ssl_deinit(build, SslInitEntry(ssl_client, trusted)) IN
        /\ ssl_client' = m.client
        /\ trusted' = m.trusted
        /\ last' = [NoCall EXCEPT !.op = "ssl_deinit", !.rv = APR_SUCCESS,
                                  !.calls = m.calls, !.pre_client = ssl_client,
                                  !.pre_trusted = trusted, !.pre_open = open]
        /\ UNCHANGED <<build, open, nconn, returned, twin>>

\* apr_ldap_init(pool, &ldap, hostname, portno, secure, &result)
LdapInit ==
    /\ nconn < MaxConns
    /\ \E secure \in BOOLEAN, in_ldap \in {NullLdap, StaleLdap},
          nat \in [handle : {NullLdap, nconn + 1},
                   opt_rc : Returns(build, {"OPENLDAP"}),
                   errno : OsErrors, open_errno : OpenErrors] :
        \E c \in {apr_ldap_init(build, in_ldap, open, secure, nat)} :
        LET opened == \E i \in 1..Len(c.calls) :
                          c.calls[i].fn \in OpenFns /\ c.calls[i].ret # NullLdap
        IN  /\ open' = c.open
            /\ nconn' = IF opened THEN nconn + 1 ELSE nconn
            /\ returned' = IF c.rv = APR_SUCCESS /\ c.ldap # NullLdap
                           THEN returned \cup {c.ldap} ELSE returned
            /\ last' = [NoCall EXCEPT !.op = "init", !.secure = secure,
                                      !.in_ldap = in_ldap, !.rv = c.rv, !.rc = c.rc,
                                      !.msg = c.msg, !.reason = c.reason,
                                      !.ldap = c.ldap, !.calls = c.calls,
                                      !.pre_client = ssl_client,
                                      !.pre_trusted = trusted, !.pre_open = open]
            /\ twin' = InitOutcome(apr_ldap_init(Twin(build), in_ldap, open, secure, nat))
    /\ UNCHANGED <<build, ssl_client, trusted>>

\* apr_ldap_info(pool, &result)
LdapInfo ==
    LET r == apr_ldap_info(build) IN
        /\ last' = [NoCall EXCEPT !.op = "info", !.rv = r.rv, !.rc = r.rc,
                                  !.msg = r.msg, !.reason = r.reason,
                                  !.pre_client = ssl_client,
                                  !.pre_trusted = trusted, !.pre_open = open]
        /\ UNCHANGED <<build, ssl_client, trusted, open, nconn, returned, twin>>

Next == SslInit \/ SslDeinit \/ LdapInit \/ LdapInfo

Spec == Init /\ [][Next]_vars

----------------------------------------------------------------------------
(* Vocabulary of the properties. *)

Range(q) == {q[i] : i \in 1..Len(q)}

\* the native calls of the last operation made to one of the functions fns
CallsTo(fns) == {c \in Range(last.calls) : c.fn \in fns}

IsConfigure == last.op = "ssl_init"
IsConnect == last.op = "init"
PathPresent == last.file # NullStr

CertVariants == {"NETSCAPE", "NOVELL", "OPENLDAP"}

\* the encodings each variant is documented to accept (comments at lines 75,
\* 107 and 150)
AcceptedTypes(sdk) ==
    CASE sdk = "NETSCAPE" -> {"CERT7_DB"}
      [] sdk = "NOVELL" -> {"DER", "BASE64"}
      [] sdk = "OPENLDAP" -> {"BASE64"}
      [] OTHER -> {}

\* the build has SSL support and every toolkit function that the variant's
\* certificate block needs
CertCapable(b) ==
    /\ APR_HAS_LDAP_SSL(b)
    /\ \/ APR_HAS_NETSCAPE_LDAPSDK(b)
       \/ /\ APR_HAS_NOVELL_LDAPSDK(b)
          /\ APR_HAS_LDAPSSL_CLIENT_INIT(b)
          /\ APR_HAS_LDAPSSL_ADD_TRUSTED_CERT(b)
          /\ APR_HAS_LDAPSSL_CLIENT_DEINIT(b)
       \/ APR_HAS_OPENLDAP_LDAPSDK(b) /\ LDAP_OPT_X_TLS_CACERTFILE(b)

\* the reasonText that names the encoding the variant requires
RequiredTypeReason(sdk) ==
    CASE sdk = "NETSCAPE" -> "LDAP: Invalid certificate type: CERT7_DB type required"
      [] sdk = "NOVELL" -> "LDAP: Invalid certificate type: DER or BASE64 type required"
      [] sdk = "OPENLDAP" -> "LDAP: Invalid certificate type: BASE64 type required"
      [] OTHER -> NullStr

\* the trust-store state of the stateful variant
TrustStoreState(client, certs) ==
    IF ~client THEN "Uninitialized"
    ELSE IF certs = <<>> THEN "ClientInitialized"
    ELSE "CertsLoaded"

----------------------------------------------------------------------------
(* C1 *)

\* C1: on a build that can take certificates, configure(path, encoding) with
\* an encoding outside the variant's accepted set returns APR_EGENERAL with
\* rc = -1 and the reason that names the required encoding, and makes no
\* native call.
C1_RejectedEncodingFailsWithoutNativeCall ==
    (/\ IsConfigure /\ PathPresent
     /\ CertCapable(build)
     /\ last.type \notin AcceptedTypes(build.sdk))
    => /\ last.rv = APR_EGENERAL
       /\ last.rc = -1
       /\ last.reason = RequiredTypeReason(build.sdk)
       /\ last.calls = <<>>

----------------------------------------------------------------------------
(* C2 *)

NovellStateful(b) ==
    /\ APR_HAS_LDAP_SSL(b) /\ APR_HAS_NOVELL_LDAPSDK(b)
    /\ APR_HAS_LDAPSSL_CLIENT_INIT(b)
    /\ APR_HAS_LDAPSSL_ADD_TRUSTED_CERT(b)
    /\ APR_HAS_LDAPSSL_CLIENT_DEINIT(b)

\* a configure(path) call on the stateful variant that failed while the
\* state was ClientInitialized or CertsLoaded(n)
FailedWhileInitialized ==
    /\ NovellStateful(build)
    /\ IsConfigure /\ PathPresent
    /\ last.rv # APR_SUCCESS
    /\ last.pre_client

AddCertFailed ==
    \E c \in CallsTo({"ldapssl_add_trusted_cert"}) : c.ret # LDAP_SUCCESS

\* configure(absent) from the present state, its client-init succeeding
ConfigureAbsentNow(type) ==
    apr_ldap_ssl_init(build, ssl_client, trusted, NullStr, type,
                      [init_rc |-> LDAP_SUCCESS, add_rc |-> LDAP_SUCCESS,
                       opt_rc |-> LDAP_SUCCESS])

\* configure(absent) from the state after construction
ConfigureAbsentFresh(type) ==
    apr_ldap_ssl_init(build, FALSE, <<>>, NullStr, type,
                      [init_rc |-> LDAP_SUCCESS, add_rc |-> LDAP_SUCCESS,
                       opt_rc |-> LDAP_SUCCESS])

\* C2 as stated: on the stateful variant every configure(path) call that
\* fails while the state is ClientInitialized or CertsLoaded(n), whatever the
\* cause, leaves the state Uninitialized with client-deinit performed.
C2_AnyFailureRollsBack ==
    FailedWhileInitialized
    => /\ TrustStoreState(ssl_client, trusted) = "Uninitialized"
       /\ CallsTo({"ldapssl_client_deinit"}) # {}

\* C2 amended: the rollback happens when the failure is that of the native
\* add-trusted-cert call: the state is then Uninitialized, client-deinit was
\* the last native call, and a following configure(absent) whose client-init
\* succeeds returns what it returns from a fresh start.  A call that fails
\* for another cause (rejected encoding, failed client-init) makes no
\* client-deinit call: the store stays initialised with its certificates.
C2_AddFailureRollsBack ==
    FailedWhileInitialized
    => IF AddCertFailed
       THEN /\ TrustStoreState(ssl_client, trusted) = "Uninitialized"
            /\ trusted = <<>>
            /\ last.calls[Len(last.calls)].fn = "ldapssl_client_deinit"
            /\ \A t \in CertTypes :
                /\ ConfigureAbsentNow(t) = ConfigureAbsentFresh(t)
                /\ ConfigureAbsentNow(t).rv = APR_SUCCESS
                /\ TrustStoreState(ConfigureAbsentNow(t).m.client,
                                   ConfigureAbsentNow(t).m.trusted) = "ClientInitialized"
       ELSE /\ CallsTo({"ldapssl_client_deinit"}) = {}
            /\ TrustStoreState(ssl_client, trusted) # "Uninitialized"
            /\ trusted = last.pre_trusted

\* a second configure(path) call fails in the native add after a first one
\* succeeded, and the store is back to Uninitialized
C2_Witness ==
    /\ FailedWhileInitialized
    /\ AddCertFailed
    /\ last.pre_trusted # <<>>
    /\ TrustStoreState(ssl_client, trusted) = "Uninitialized"

----------------------------------------------------------------------------
(* C3 *)

AllNativeCallsSucceeded ==
    \A c \in CallsTo(RcFns) : c.ret = LDAP_SUCCESS

\* C3: on a build that can take certificates, configure(path, encoding) with
\* an accepted encoding and every native call succeeding returns APR_SUCCESS
\* and leaves the trust store with exactly one more certificate than before.
C3_AcceptedEncodingAddsOneCert ==
    (/\ IsConfigure /\ PathPresent
     /\ CertCapable(build)
     /\ last.type \in AcceptedTypes(build.sdk)
     /\ AllNativeCallsSucceeded)
    => /\ last.rv = APR_SUCCESS
       /\ Len(trusted) = Len(last.pre_trusted) + 1

----------------------------------------------------------------------------
(* C4 *)

\* C4: a successful configure(path) call on a variant that accepts
\* certificates keeps every certificate the store held before the call.
C4_CertsOnlyGrow ==
    (/\ IsConfigure /\ PathPresent
     /\ build.sdk \in CertVariants
     /\ last.rv = APR_SUCCESS)
    => Range(last.pre_trusted) \subseteq Range(trusted)

----------------------------------------------------------------------------
(* C5 *)

\* the build has a secure connection-open entry point
SecureImplemented(b) ==
    /\ APR_HAS_LDAP_SSL(b)
    /\ \/ (APR_HAS_NOVELL_LDAPSDK(b) \/ APR_HAS_NETSCAPE_LDAPSDK(b))
            /\ APR_HAS_LDAPSSL_INIT(b)
       \/ APR_HAS_OPENLDAP_LDAPSDK(b) /\ LDAP_OPT_X_TLS(b)
       \/ APR_HAS_MICROSOFT_LDAPSDK(b) /\ APR_HAS_LDAP_SSLINIT(b)

\* C5: connect(secure = true) on a build that does not implement secure
\* connections returns APR_ENOTIMPL with *ldap NULL and opens no connection.
C5_SecureUnsupportedIsNotImplemented ==
    (IsConnect /\ last.secure /\ ~SecureImplemented(build))
    => /\ last.rv = APR_ENOTIMPL
       /\ last.ldap = NullLdap
       /\ CallsTo(OpenFns) = {}

----------------------------------------------------------------------------
(* C6 *)

\* the variant that opens a plain connection and then sets the TLS mode
OpenLdapTls(b) ==
    APR_HAS_LDAP_SSL(b) /\ APR_HAS_OPENLDAP_LDAPSDK(b) /\ LDAP_OPT_X_TLS(b)

TlsOptionFailed ==
    /\ IsConnect /\ last.secure
    /\ \E c \in CallsTo({"ldap_set_option"}) : c.ret # LDAP_SUCCESS

\* C6: on the OpenLDAP variant, when ldap_set_option(LDAP_OPT_X_TLS) fails,
\* connect returns APR_EGENERAL with *ldap NULL, rc the native code, msg its
\* decoding, and the connection opened in the call closed again; and the
\* open native connections are at all times the handles returned to callers.
C6_TlsOptionFailureClosesConnection ==
    OpenLdapTls(build)
    => /\ TlsOptionFailed
          => /\ last.rv = APR_EGENERAL
             /\ last.ldap = NullLdap
             /\ \E c \in CallsTo({"ldap_set_option"}) :
                    last.rc = c.ret /\ last.msg = ldap_err2string(c.ret)
             /\ \A c \in CallsTo(OpenFns) : c.ret \notin open
             /\ open = last.pre_open
       /\ open = returned
       /\ Cardinality(open) = Cardinality(returned)

\* the mode option failed on a connection opened after an earlier connect
\* had handed a handle to its caller
C6_Witness ==
    /\ OpenLdapTls(build)
    /\ TlsOptionFailed
    /\ \E c \in CallsTo(OpenFns) : c.ret # NullLdap
    /\ returned # {}

----------------------------------------------------------------------------
(* C7 *)

\* C7: connect returns APR_SUCCESS only with *ldap a connection that a native
\* open call of the same invocation produced; with *ldap NULL at the end it
\* returns the (non-zero) OS error.
C7_SuccessOnlyWithOpenedHandle ==
    IsConnect
    => /\ last.rv = APR_SUCCESS
          => /\ last.ldap # NullLdap
             /\ \E c \in CallsTo(OpenFns) : c.ret = last.ldap
       /\ last.ldap = NullLdap
          => last.rv \in (OsErrors \cup OpenErrors) \ {APR_SUCCESS}

----------------------------------------------------------------------------
(* C8 *)

\* C8 as stated: a configure or connect result has reasonText exactly when
\* the call returned a status other than APR_SUCCESS.
C8_ReasonIffFailure ==
    (IsConfigure \/ IsConnect)
    => (last.reason # NullStr <=> last.rv # APR_SUCCESS)

\* C8 amended: reasonText is present only on a call that returned a status
\* other than APR_SUCCESS.  A failing call has it except: configure on
\* OpenLDAP whose ldap_set_option failed, connect that ended with *ldap NULL
\* and returned the OS error, and secure connect on the unrecognised toolkit.
C8_ReasonOnlyOnFailure ==
    /\ (IsConfigure \/ IsConnect)
       => (last.reason # NullStr => last.rv # APR_SUCCESS)
    /\ (IsConfigure /\ last.rv # APR_SUCCESS /\ last.reason = NullStr)
       => /\ APR_HAS_OPENLDAP_LDAPSDK(build)
          /\ \E c \in CallsTo({"ldap_set_option"}) : c.ret # LDAP_SUCCESS
    /\ (IsConnect /\ last.rv # APR_SUCCESS /\ last.reason = NullStr)
       => \/ last.ldap = NullLdap /\ last.rv \in OsErrors \cup OpenErrors
          \/ /\ APR_HAS_OTHER_LDAPSDK(build) /\ APR_HAS_LDAP_SSL(build)
             /\ last.secure /\ last.rv = APR_ENOTIMPL

\* a configure call rejected an encoding: reasonText present, status a failure
C8_Witness ==
    /\ IsConfigure /\ PathPresent
    /\ last.reason # NullStr
    /\ last.reason = RequiredTypeReason(build.sdk)
    /\ last.rv = APR_EGENERAL

----------------------------------------------------------------------------
(* C9 *)

\* C9 as stated: vendorMessage is present only when rc is a code that a
\* native call of the operation returned, never when rc is -1; a successful
\* configure has rc the success code, msg its decoding and no reasonText.
C9_VendorMessageOnlyForNativeCode ==
    (last.op # "none")
    => /\ last.msg # NullStr => \E c \in CallsTo(RcFns) : c.ret = last.rc
       /\ last.rc = -1 => last.msg = NullStr
       /\ (IsConfigure /\ last.rv = APR_SUCCESS)
          => /\ last.rc = LDAP_SUCCESS
             /\ last.msg = ldap_err2string(LDAP_SUCCESS)
             /\ last.reason = NullStr

\* C9 amended: vendorMessage, when present, is the decoding of rc, and rc is
\* then a code a native call of the operation returned or, in configure, the
\* success code left by the zeroed record or set for the Microsoft toolkit
\* with no native call made.  It is never present with the -1 sentinel that
\* this layer sets itself (rc = -1 with a message means a native call
\* returned -1), and configure always has it when rc is not -1.  A successful
\* configure has rc the success code, msg its decoding and no reasonText.
C9_VendorMessageDecodesStatus ==
    (last.op # "none")
    => /\ last.msg # NullStr
          => /\ last.msg = ldap_err2string(last.rc)
             /\ \/ \E c \in CallsTo(RcFns) : c.ret = last.rc
                \/ IsConfigure /\ last.rc = LDAP_SUCCESS
       /\ (last.rc = -1 /\ last.msg # NullStr)
          => \E c \in CallsTo(RcFns) : c.ret = -1
       /\ (IsConfigure /\ last.rc # -1) => last.msg # NullStr
       /\ (IsConfigure /\ last.rv = APR_SUCCESS)
          => /\ last.rc = LDAP_SUCCESS
             /\ last.msg = ldap_err2string(LDAP_SUCCESS)
             /\ last.reason = NullStr

\* configure(absent) succeeded without a native call and carries the decoded
\* success code
C9_Witness ==
    /\ IsConfigure /\ ~PathPresent
    /\ last.rv = APR_SUCCESS
    /\ last.calls = <<>>
    /\ last.msg = ldap_err2string(LDAP_SUCCESS)

----------------------------------------------------------------------------
(* C10 *)

\* C10: connect(secure = false) makes one native call, the plain open, and
\* its status, handle, result record and native calls are those of the same
\* call on the build that differs in APR_HAS_LDAP_SSL only.
C10_PlainConnectIgnoresSslSupport ==
    (IsConnect /\ ~last.secure)
    => /\ twin = [rv |-> last.rv, ldap |-> last.ldap, rc |-> last.rc,
                  msg |-> last.msg, reason |-> last.reason, calls |-> last.calls]
       /\ Len(last.calls) = 1
       /\ last.calls[1].fn = "ldap_init"
       /\ last.calls[1].ret = last.ldap

\* a plain connect on a build without SSL support obtained a handle
C10_Witness ==
    /\ IsConnect /\ ~last.secure
    /\ ~APR_HAS_LDAP_SSL(build)
    /\ last.ldap # NullLdap
    /\ last.rv = APR_SUCCESS

----------------------------------------------------------------------------
(* C11 *)

IsDeinit == last.op = "ssl_deinit"

\* deinit() once more from the present state
DeinitAgain == apr_ldap_ssl_deinit(build, SslInitEntry(ssl_client, trusted))

\* C11 as stated: after deinit() on any variant the state is Uninitialized
\* and no certificate set by earlier configure calls remains; deinit returns
\* APR_SUCCESS.
C11_DeinitClearsEveryVariant ==
    IsDeinit
    => /\ last.rv = APR_SUCCESS
       /\ ~ssl_client
       /\ trusted = <<>>

\* C11 amended: deinit always returns APR_SUCCESS.  On a build with SSL
\* support and ldapssl_client_deinit (so on the stateful Novell variant) it
\* calls client-deinit, and the state is then Uninitialized with no
\* certificate left, also when it was Uninitialized already; a second deinit
\* leaves it so.  On any other build it makes no native call and leaves the
\* trust store as it was (a CA file set on OpenLDAP stays set).
C11_DeinitClearsWhereSupported ==
    IsDeinit
    => /\ last.rv = APR_SUCCESS
       /\ IF APR_HAS_LDAP_SSL(build) /\ APR_HAS_LDAPSSL_CLIENT_DEINIT(build)
          THEN /\ last.calls = <<Call("ldapssl_client_deinit", NullStr, 0)>>
               /\ TrustStoreState(ssl_client, trusted) = "Uninitialized"
               /\ trusted = <<>>
          ELSE /\ last.calls = <<>>
               /\ ssl_client = last.pre_client
               /\ trusted = last.pre_trusted
       /\ NovellStateful(build)
          => TrustStoreState(ssl_client, trusted) = "Uninitialized" /\ trusted = <<>>
       /\ DeinitAgain.client = ssl_client
       /\ DeinitAgain.trusted = trusted

\* deinit was called on the stateful variant with certificates loaded
C11_Witness ==
    /\ IsDeinit
    /\ NovellStateful(build)
    /\ last.pre_client
    /\ last.pre_trusted # <<>>
    /\ trusted = <<>>
    /\ ~ssl_client

----------------------------------------------------------------------------
(* C12 *)

ConfigureAbsent == IsConfigure /\ ~PathPresent

ClientInitSucceeded ==
    \E c \in CallsTo({"ldapssl_client_init"}) : c.ret = LDAP_SUCCESS

\* C12 as stated: on the stateful variant configure(absent) from
\* Uninitialized or from ClientInitialized returns APR_SUCCESS, adds no
\* certificate and leaves the state ClientInitialized; on a variant without
\* client-init it returns APR_SUCCESS and makes no native call.
C12_ConfigureAbsentNeverFails ==
    ConfigureAbsent
    => /\ (NovellStateful(build) /\ last.pre_trusted = <<>>)
          => /\ last.rv = APR_SUCCESS
             /\ trusted = <<>>
             /\ TrustStoreState(ssl_client, trusted) = "ClientInitialized"
       /\ ~APR_HAS_NOVELL_LDAPSDK(build)
          => /\ last.rv = APR_SUCCESS
             /\ last.calls = <<>>

\* C12 amended: on the stateful variant every configure(absent) call makes
\* one native call, client-init.  When that call reports success the result
\* is APR_SUCCESS, no certificate is added, and from Uninitialized as from
\* ClientInitialized the state is ClientInitialized; when it reports failure
\* the result is APR_EGENERAL.  On a variant without client-init the call
\* returns APR_SUCCESS, makes no native call and changes nothing.
C12_ConfigureAbsentReinitialises ==
    ConfigureAbsent
    => /\ NovellStateful(build)
          => /\ Len(last.calls) = 1
             /\ last.calls[1].fn = "ldapssl_client_init"
             /\ IF ClientInitSucceeded
                THEN /\ last.rv = APR_SUCCESS
                     /\ trusted = last.pre_trusted
                     /\ last.pre_trusted = <<>>
                        => TrustStoreState(ssl_client, trusted) = "ClientInitialized"
                ELSE /\ last.rv = APR_EGENERAL
                     /\ last.rc = last.calls[1].ret
       /\ ~APR_HAS_NOVELL_LDAPSDK(build)
          => /\ last.rv = APR_SUCCESS
             /\ last.calls = <<>>
             /\ ssl_client = last.pre_client
             /\ trusted = last.pre_trusted

\* the second configure(absent): the state was ClientInitialized and is
\* ClientInitialized
C12_Witness ==
    /\ ConfigureAbsent
    /\ NovellStateful(build)
    /\ TrustStoreState(last.pre_client, last.pre_trusted) = "ClientInitialized"
    /\ last.rv = APR_SUCCESS
    /\ TrustStoreState(ssl_client, trusted) = "ClientInitialized"

----------------------------------------------------------------------------
(* C13 *)

\* a configure(path) call on the stateful variant made from Uninitialized:
\* the legacy single call
LegacySingleCall ==
    /\ IsConfigure /\ PathPresent /\ NovellStateful(build)
    /\ TrustStoreState(last.pre_client, last.pre_trusted) = "Uninitialized"
    /\ last.pre_trusted = <<>>

\* the answers the toolkit gave to the last call, function by function
LastNative ==
    [init_rc |-> IF CallsTo({"ldapssl_client_init"}) = {} THEN LDAP_SUCCESS
                 ELSE (CHOOSE c \in CallsTo({"ldapssl_client_init"}) : TRUE).ret,
     add_rc  |-> IF CallsTo({"ldapssl_add_trusted_cert"}) = {} THEN LDAP_SUCCESS
                 ELSE (CHOOSE c \in CallsTo({"ldapssl_add_trusted_cert"}) : TRUE).ret,
     opt_rc  |-> LDAP_SUCCESS]

\* configure(absent, type) from Uninitialized, then configure(file, type),
\* the toolkit answering as it did in the last call
TwoCallFirst ==
    apr_ldap_ssl_init(build, FALSE, <<>>, NullStr, last.type, LastNative)

TwoCallSecond ==
    apr_ldap_ssl_init(build, TwoCallFirst.m.client, TwoCallFirst.m.trusted,
                      last.file, last.type, LastNative)

\* position of the first call to fn in the last call's native calls, 0 if none
FirstCallTo(fn) ==
    IF \E i \in 1..Len(last.calls) : last.calls[i].fn = fn
    THEN CHOOSE i \in 1..Len(last.calls) :
            /\ last.calls[i].fn = fn
            /\ \A j \in 1..(i - 1) : last.calls[j].fn # fn
    ELSE 0

----------------------------------------------------------------------------
(* C14 *)

\* C14: apr_ldap_ssl_init returns APR_EGENERAL when the build has no SSL
\* support, whatever the arguments, or when setting the certificate met a
\* problem, and APR_SUCCESS otherwise; it returns no other status, and a
\* failure is described in the result.
C14_NoSslSupportAlwaysFails ==
    IsConfigure
    => /\ last.rv \in {APR_SUCCESS, APR_EGENERAL}
       /\ last.rv = APR_EGENERAL
          <=> (~APR_HAS_LDAP_SSL(build) \/ last.reason # NullStr)
       /\ last.rv = APR_EGENERAL => last.reason # NullStr

----------------------------------------------------------------------------
(* C15 *)

\* builds whose apr_ldap_ssl_init cannot set a certificate at all: no SSL
\* support, the Sun toolkit, an unrecognised toolkit
NoCertificateStore(b) ==
    \/ ~APR_HAS_LDAP_SSL(b)
    \/ APR_HAS_SOLARIS_LDAPSDK(b)
    \/ APR_HAS_OTHER_LDAPSDK(b)

----------------------------------------------------------------------------
(* C16 *)

\* C16 as stated: on the Microsoft toolkit configure returns APR_SUCCESS for
\* every path and encoding, with rc = LDAP_SUCCESS, its message and no reason.
C16_MicrosoftAlwaysSucceeds ==
    (IsConfigure /\ APR_HAS_MICROSOFT_LDAPSDK(build))
    => /\ last.rv = APR_SUCCESS
       /\ last.rc = LDAP_SUCCESS
       /\ last.msg = ldap_err2string(LDAP_SUCCESS)
       /\ last.reason = NullStr

\* C16 amended: on the Microsoft toolkit built with SSL support configure
\* returns APR_SUCCESS for every path and encoding, with rc = LDAP_SUCCESS,
\* its message and no reason; the path is ignored: no native call is made and
\* the trust store is as it was.
C16_MicrosoftWithSslAlwaysSucceeds ==
    (IsConfigure /\ APR_HAS_MICROSOFT_LDAPSDK(build) /\ APR_HAS_LDAP_SSL(build))
    => /\ last.rv = APR_SUCCESS
       /\ last.rc = LDAP_SUCCESS
       /\ last.msg = ldap_err2string(LDAP_SUCCESS)
       /\ last.reason = NullStr
       /\ last.calls = <<>>
       /\ ssl_client = last.pre_client
       /\ trusted = last.pre_trusted

\* a certificate file given to the Microsoft toolkit built with SSL support
C16_Witness ==
    /\ IsConfigure /\ PathPresent
    /\ APR_HAS_MICROSOFT_LDAPSDK(build) /\ APR_HAS_LDAP_SSL(build)
    /\ last.type = "CERT7_DB"
    /\ last.rv = APR_SUCCESS
    /\ last.msg = "Success"

----------------------------------------------------------------------------
(* C17 *)

IsDescribe == last.op = "info"

\* C17: apr_ldap_info returns APR_SUCCESS with the reason naming the
\* toolkit of the build, in every trust-store state and after every sequence
\* of calls; it makes no native call and leaves the trust store, its
\* certificates and the open connections as they were.
C17_InfoNamesToolkitAndTouchesNothing ==
    IsDescribe
    => /\ last.rv = APR_SUCCESS
       /\ last.reason # NullStr
       /\ last.reason = "APR LDAP: Built with " \o LDAP_VENDOR_NAME(build) \o " LDAP SDK"
       /\ last.calls = <<>>
       /\ ssl_client = last.pre_client
       /\ trusted = last.pre_trusted
       /\ open = last.pre_open

\* apr_ldap_info called with certificates loaded and a connection open
C17_Witness ==
    /\ IsDescribe
    /\ TrustStoreState(ssl_client, trusted) = "CertsLoaded"
    /\ open # {}
    /\ last.rv = APR_SUCCESS
    /\ last.reason = "APR LDAP: Built with Novell LDAP SDK"

----------------------------------------------------------------------------
(* C18 *)

\* the positions of the calls to fn among the last call's native calls
CallPositions(fn) == {i \in 1..Len(last.calls) : last.calls[i].fn = fn}

ClientInitFailed ==
    /\ last.calls # <<>>
    /\ last.calls[1].fn = "ldapssl_client_init"
    /\ last.calls[1].ret # LDAP_SUCCESS

\* C18: on the stateful variant every configure call calls client-init
\* first; add-trusted-cert is called only after client-init succeeded, with a
\* path and the DER or BASE64 encoding; client-deinit is called only right
\* after an add-trusted-cert of the same call failed.  When client-init fails
\* nothing else is called and the call returns APR_EGENERAL with rc the
\* native code, its message and a reason.
C18_NovellNativeCallOrder ==
    (IsConfigure /\ NovellStateful(build))
    => /\ CallPositions("ldapssl_client_init") = {1}
       /\ \A i \in CallPositions("ldapssl_add_trusted_cert") :
            /\ i = 2
            /\ last.calls[1].ret = LDAP_SUCCESS
            /\ PathPresent
            /\ last.type \in {"DER", "BASE64"}
       /\ \A i \in CallPositions("ldapssl_client_deinit") :
            /\ i = 3
            /\ last.calls[2].fn = "ldapssl_add_trusted_cert"
            /\ last.calls[2].ret # LDAP_SUCCESS
       /\ ClientInitFailed
          => /\ Len(last.calls) = 1
             /\ last.rv = APR_EGENERAL
             /\ last.rc = last.calls[1].ret
             /\ last.msg = ldap_err2string(last.rc)
             /\ last.reason = "LDAP: Could not initialize SSL"

\* client-init failed on a call that brought a certificate file
C18_Witness ==
    /\ IsConfigure /\ NovellStateful(build)
    /\ PathPresent /\ last.type = "DER"
    /\ ClientInitFailed
    /\ Len(last.calls) = 1
    /\ last.rv = APR_EGENERAL
    /\ last.msg # NullStr

====
